---- MODULE Spec2Model ----
(***************************************************************************)
(* A model of the Onedata space driver                                     *)
(* (storage_service/locations/models/onedata.py): the mount handling of    *)
(* Onedata.mount, the directory listing of generate_directory_tree and the *)
(* symlink mirroring of move_to_storage_service and                        *)
(* move_from_storage_service, together with Onedata.save, the module       *)
(* functions is_local_replica and count_objects, the SWORD views           *)
(* deposit_state, deposit_media and collection with the fetch process of   *)
(* a deposit (locations/api/sword/views.py), the CAS login receiver and    *)
(* the receivers of the fixity signals (locations/signals.py).             *)
(*                                                                         *)
(* Every handler (browse, move_to_storage_service,                         *)
(* move_from_storage_service) is one action.  What the handler cannot      *)
(* decide (the answer of a subprocess or of the exec endpoint, the order   *)
(* in which the operating system lists a directory, a failing symlink      *)
(* call) is drawn with \E from the outcomes the environment can produce.   *)
(***************************************************************************)
EXTENDS Integers, Sequences, FiniteSets, TLC

VARIABLES
    cfg,                        \* the fields of the Onedata record that the handlers read
    object_counting_disabled,   \* the setting read by utils.get_setting
    mountState,                 \* what is really at the mountpoint: Unmounted, Mounted, Unresponsive
    mountpointExists,           \* whether the mountpoint directory exists
    listing,                    \* the directory under the mount that browse lists, in scandir order
    tree,                       \* the source tree of a transfer, as relative paths
    treeAt,                     \* the roots under which that tree is visible
    dest,                       \* the destination side of the filesystem
    last,                       \* what the last call did and returned
    ret,                        \* what the last direct call of a module function returned
    record,                     \* the Onedata record handed to save() and the stored row
    calls,                      \* where each of the concurrent calls stands
    sword,                      \* the deposit row, the files of the deposit, the last response
    auth,                       \* the CAS settings, the stored users and the last login
    fetch,                      \* the collection of deposits and the fetch process of a deposit
    fixity                      \* the superusers, the FixityLog rows and the last fixity signal

driverVars == <<cfg, object_counting_disabled, mountState, mountpointExists,
                listing, tree, treeAt, dest, last>>

otherVars == <<ret, record, calls, sword, auth, fetch, fixity>>

vars == <<cfg, object_counting_disabled, mountState, mountpointExists,
          listing, tree, treeAt, dest, last, ret, record, calls, sword, auth,
          fetch, fixity>>

(***************************************************************************)
(* Onedata.mount                                                           *)
(***************************************************************************)

MountStates == {"Unmounted", "Mounted", "Unresponsive"}

\* One issued command: the transport ("exec": execute_in_pod, "local":
\* subprocess), the command, its exit code (-1: the call itself raised or
\* timed out) and whether the response body names the configured space.
Cmd(via, cmd, exit_code, names_space) ==
    [via |-> via, cmd |-> cmd, exit_code |-> exit_code, names_space |-> names_space]

\* What the shell command does to the mountpoint and what it answers.
\* raised: requests.get raised, or the exit-code header is missing.
ShellEffects(cmd, ms, mp) ==
    CASE cmd = "ls" ->
            IF ms = "Mounted" THEN {[exit_code |-> 0, names_space |-> TRUE, ms |-> ms, mp |-> mp]}
            ELSE IF ms = "Unmounted" /\ mp
                 THEN {[exit_code |-> 0, names_space |-> FALSE, ms |-> ms, mp |-> mp]}
            ELSE {[exit_code |-> 1, names_space |-> FALSE, ms |-> ms, mp |-> mp]}
      [] cmd = "mkdir" ->
            IF ms = "Unresponsive"
            THEN {[exit_code |-> 1, names_space |-> FALSE, ms |-> ms, mp |-> mp]}
            ELSE {[exit_code |-> 0, names_space |-> FALSE, ms |-> ms, mp |-> TRUE]}
      [] cmd = "fusermount" ->
            IF ms = "Unmounted"
            THEN {[exit_code |-> 1, names_space |-> FALSE, ms |-> ms, mp |-> mp]}
            ELSE {[exit_code |-> 0, names_space |-> FALSE, ms |-> "Unmounted", mp |-> mp]}
      [] cmd = "oneclient" ->
            IF ms = "Unmounted" /\ mp
            THEN {[exit_code |-> 0, names_space |-> FALSE, ms |-> "Mounted", mp |-> mp],
                  [exit_code |-> 1, names_space |-> FALSE, ms |-> ms, mp |-> mp]}
            ELSE {[exit_code |-> 1, names_space |-> FALSE, ms |-> ms, mp |-> mp]}

\* execute_in_pod: one GET per command; it returns (exit_code, body), a
\* non-zero exit code is only logged; requests.get or the header lookup may
\* raise, and then the command did not run.
execute_in_pod(cmd, ms, mp) ==
    {[raised |-> FALSE, exit_code |-> e.exit_code, names_space |-> e.names_space,
      ms |-> e.ms, mp |-> e.mp] : e \in ShellEffects(cmd, ms, mp)}
    \cup {[raised |-> TRUE, exit_code |-> -1, names_space |-> FALSE, ms |-> ms, mp |-> mp]}

\* A finished run of mount(): the commands issued in order, the exception
\* that left mount() ("none" when it returned), and the mountpoint after it.
MountRun(cmds, raised, ms, mp) ==
    [cmds |-> cmds, raised |-> raised, ms |-> ms, mp |-> mp]

\* Lines 332-339: mkdir -p, fusermount -uz, oneclient, each through
\* execute_in_pod with its result dropped; an exception ends the sequence
\* and is caught and logged at line 340, so mount() returns either way.
RECURSIVE RemoteRemount(_, _, _, _)
RemoteRemount(todo, cmds, ms, mp) ==
    IF todo = <<>> THEN {MountRun(cmds, "none", ms, mp)}
    ELSE UNION {
        LET log == Append(cmds, Cmd("exec", Head(todo), r.exit_code, r.names_space))
        IN  IF r.raised THEN {MountRun(log, "none", r.ms, r.mp)}
            ELSE RemoteRemount(Tail(todo), log, r.ms, r.mp)
        : r \in execute_in_pod(Head(todo), ms, mp)}

\* The remote branch taking exit code 0 of the probe alone for a live mount.
RemoteMountExitCodeOnly(ms, mp) ==
    UNION {
        LET log == <<Cmd("exec", "ls", p.exit_code, p.names_space)>>
        IN  IF p.raised \/ p.exit_code = 0 THEN {MountRun(log, "none", p.ms, p.mp)}
            ELSE RemoteRemount(<<"mkdir", "fusermount", "oneclient">>, log, p.ms, p.mp)
        : p \in execute_in_pod("ls", ms, mp)}

\* Lines 324-342: the branch taken when oneclient_rest_endpoint is set.
RemoteMount(ms, mp) ==
    UNION {
        LET log == <<Cmd("exec", "ls", p.exit_code, p.names_space)>>
        IN  IF p.raised THEN {MountRun(log, "none", p.ms, p.mp)}
            ELSE IF p.exit_code = 0 /\ p.names_space
                 THEN {MountRun(log, "none", p.ms, p.mp)}
            ELSE RemoteRemount(<<"mkdir", "fusermount", "oneclient">>, log, p.ms, p.mp)
        : p \in execute_in_pod("ls", ms, mp)}

\* os.path.ismount: lstat of the mountpoint and of its parent.  On a dead
\* FUSE mount lstat may fail (ismount answers False) or still answer.
ismount(ms) ==
    CASE ms = "Mounted" -> {TRUE}
      [] ms = "Unmounted" -> {FALSE}
      [] ms = "Unresponsive" -> {TRUE, FALSE}

\* subprocess.check_output(["ls", mountpoint], timeout=10): returns on exit
\* code 0, raises CalledProcessError on another exit code, times out when
\* the mount does not answer, and raises TypeError where check_output has
\* no timeout parameter.
LocalProbe(ms) ==
    IF ms = "Unresponsive" THEN {1, -1} ELSE {0, -1}

\* Lines 343-358: the branch taken without a rest endpoint.  Any exception
\* of the probe reaches "except TimeoutExpired", a name this module never
\* binds: evaluating it raises NameError, so lines 356-358 (fusermount and
\* the recursive self.mount()) never run and mount() raises.
LocalMount(ms, mp) ==
    UNION {
        IF m THEN {MountRun(<<>>, "none", ms, mp)}
        ELSE IF ms = "Unresponsive"
        THEN \* os.path.exists fails on the dead mount: makedirs raises EEXIST;
             \* or it answers and the probe is issued
             {MountRun(<<>>, "OSError", ms, mp)}
             \cup {MountRun(<<Cmd("local", "ls", e, FALSE)>>, "NameError", ms, mp)
                   : e \in LocalProbe(ms)}
        ELSE {MountRun(<<Cmd("local", "ls", e, FALSE)>>,
                       IF e = 0 THEN "none" ELSE "NameError", ms, TRUE)
              : e \in LocalProbe(ms)}
        : m \in ismount(ms)}

\* Onedata.mount.  Line 320 reads the unbound name oneclient_cli when the
\* field oneclient_cli is set: NameError before any command.
\* The field manually_mounted is not read.
mount(c, ms, mp) ==
    IF c.oneclient_cli THEN {MountRun(<<>>, "NameError", ms, mp)}
    ELSE IF c.oneclient_rest_endpoint THEN RemoteMount(ms, mp)
    ELSE LocalMount(ms, mp)

(***************************************************************************)
(* generate_directory_tree and what it calls                               *)
(***************************************************************************)

\* File names are sequences of character codes, so that str.lower and the
\* ordering of strings are computed, not assumed.
chr_a == <<97>>
chr_B == <<66>>
chr_b == <<98>>
chr_C == <<67>>

\* str.lower on ASCII: the codes of A..Z are moved to those of a..z.
lower(name) ==
    [i \in DOMAIN name |-> IF name[i] \in 65..90 THEN name[i] + 32 ELSE name[i]]

\* The order of Python strings: s <= t, code by code.
RECURSIVE StrLeq(_, _)
StrLeq(s, t) ==
    IF s = <<>> THEN TRUE
    ELSE IF t = <<>> THEN FALSE
    ELSE IF Head(s) < Head(t) THEN TRUE
    ELSE IF Head(s) > Head(t) THEN FALSE
    ELSE StrLeq(Tail(s), Tail(t))

SortKeyCaseSensitive(e) == e.name

\* key=lambda e: e.name.lower()  (line 109)
SortKey(e) == lower(e.name)

\* sorted(iterable, key=...): a stable sort; x goes after every element
\* whose key is not greater than its own.
RECURSIVE InsertSorted(_, _)
InsertSorted(x, s) ==
    IF s = <<>> THEN <<x>>
    ELSE IF StrLeq(SortKey(Head(s)), SortKey(x))
         THEN <<Head(s)>> \o InsertSorted(x, Tail(s))
    ELSE <<x>> \o s

RECURSIVE sorted(_)
sorted(s) ==
    IF s = <<>> THEN <<>>
    ELSE InsertSorted(s[Len(s)], sorted(SubSeq(s, 1, Len(s) - 1)))

\* xattr(path) and the two xa.get calls of lines 35-37: the values of both
\* attributes, or IOError when the file has no such attribute or the
\* filesystem refuses the read.
xattr_get(e) ==
    IF e.xattr = "IOError"
    THEN [raised |-> "IOError", replication_progress |-> "", blocks_count |-> ""]
    ELSE [raised |-> "none", replication_progress |-> e.replication_progress,
          blocks_count |-> e.blocks_count]

\* is_local_replica without the handler of line 38.
IsLocalReplicaUncaught(e) ==
    LET xa == xattr_get(e)
    IN  [raised |-> xa.raised,
         value |-> xa.raised = "none" /\ xa.replication_progress = "100%"
                   /\ xa.blocks_count = "1"]

\* is_local_replica, lines 31-45, with how it ends: "except IOError" logs
\* and returns False; otherwise the comparison of line 45.
IsLocalReplicaRun(e) ==
    LET xa == xattr_get(e)
    IN  IF xa.raised = "IOError" THEN [raised |-> "none", value |-> FALSE]
        ELSE [raised |-> xa.raised,
              value |-> xa.replication_progress = "100%" /\ xa.blocks_count = "1"]

\* is_local_replica as its callers use it: the returned value.
is_local_replica(e) == IsLocalReplicaRun(e).value

\* scandir.scandir(path) on a path below the mountpoint: the children when
\* the mount answers, OSError otherwise.
scandir(ms, children) ==
    IF ms = "Mounted" THEN [raised |-> "none", entries |-> children]
    ELSE [raised |-> "OSError", entries |-> <<>>]

\* read_directory that filters whatever the flag says.
ReadDirectoryLocalOnly(entries, only_local_replicas) ==
    SelectSeq(entries, is_local_replica)

\* read_directory(path, only_local_replicas): lines 48-55.
read_directory(entries, only_local_replicas) ==
    IF only_local_replicas THEN SelectSeq(entries, is_local_replica)
    ELSE entries

\* utils.get_setting(name, default): the stored value of the setting.
get_setting(value, default) == value

\* scan_directories_and_filter: the name count_objects (line 84) and
\* scan_directories_deep (line 66) call.  It is bound nowhere in the module
\* (the generator defined at line 58 is scan_directories_deep), so
\* evaluating the call raises NameError and yields nothing.
scan_directories_and_filter(e, only_local_replicas) ==
    [raised |-> "NameError", entries |-> <<>>]

\* The cap of line 88 and the string returned at line 89.
COUNT_LIMIT == 5000
COUNT_LIMIT_REACHED == "5000+"

\* Lines 85-91: one more for every yielded entry, the string once the
\* count is at the cap, the count when the iterator is exhausted.
RECURSIVE CountLoop(_, _)
CountLoop(entries, count) ==
    IF entries = <<>> THEN [raised |-> "none", value |-> count]
    ELSE IF count + 1 >= COUNT_LIMIT
         THEN [raised |-> "none", value |-> COUNT_LIMIT_REACHED]
         ELSE CountLoop(Tail(entries), count + 1)

\* count_objects: lines 79-91.  The iterator expression of line 84 raises
\* before anything is counted.
count_objects(e, only_local_replicas) ==
    LET it == scan_directories_and_filter(e, only_local_replicas)
    IN  IF it.raised # "none" THEN [raised |-> it.raised, value |-> 0]
        ELSE CountLoop(it.entries, 0)

\* should_count taken from the setting alone.
ShouldCountFromSettingOnly(only_local_replicas, counting_disabled) ==
    get_setting(counting_disabled, FALSE)

\* Lines 99-103.
should_count(only_local_replicas, counting_disabled) ==
    IF only_local_replicas THEN FALSE
    ELSE get_setting(counting_disabled, FALSE)

Prop(key, value) == [key |-> key, value |-> value]

\* os.access answering that every path can be read.
AccessAlways(e) == TRUE

\* os.access(entry.path, os.R_OK), line 115.
access(e) == e.readable

ScanResult(raised, directories, entries, properties, count_calls) ==
    [raised |-> raised, directories |-> directories, entries |-> entries,
     properties |-> properties, count_calls |-> count_calls]

NoScan == ScanResult("none", <<>>, <<>>, <<>>, <<>>)

\* The loop of lines 109-118 over the sorted entries.  properties is kept as
\* the sequence of (name, property) pairs in the order they were assigned;
\* count_calls are the names handed to count_objects.  An exception leaves
\* the function with nothing returned.
RECURSIVE ScanLoop(_, _, _, _)
ScanLoop(rest, acc, only_local_replicas, counting) ==
    IF rest = <<>> THEN acc
    ELSE LET e == Head(rest)
             withEntry == [acc EXCEPT !.entries = Append(@, e.name)]
         IN  IF ~e.is_dir
             THEN ScanLoop(Tail(rest),
                      [withEntry EXCEPT !.properties =
                          Append(@, <<e.name, Prop("size", e.size)>>)],
                      only_local_replicas, counting)
             ELSE IF access(e)
             THEN LET withDir == [withEntry EXCEPT !.directories = Append(@, e.name)]
                  IN  IF counting
                      THEN LET c == count_objects(e, only_local_replicas)
                           IN  IF c.raised # "none"
                               THEN ScanResult(c.raised, <<>>, <<>>, <<>>,
                                               Append(acc.count_calls, e.name))
                               ELSE ScanLoop(Tail(rest),
                                      [withDir EXCEPT
                                          !.properties = Append(@,
                                              <<e.name, Prop("object count", c.value)>>),
                                          !.count_calls = Append(@, e.name)],
                                      only_local_replicas, counting)
                      ELSE ScanLoop(Tail(rest), withDir, only_local_replicas, counting)
             ELSE ScanLoop(Tail(rest), withEntry, only_local_replicas, counting)

\* generate_directory_tree(path, only_local_replicas): lines 94-125.  Line
\* 109 calls read_directory(path, False).
generate_directory_tree(ms, children, only_local_replicas, counting_disabled) ==
    LET d == scandir(ms, children)
    IN  IF d.raised # "none" THEN ScanResult(d.raised, <<>>, <<>>, <<>>, <<>>)
        ELSE ScanLoop(sorted(read_directory(d.entries, FALSE)), NoScan,
                      only_local_replicas,
                      should_count(only_local_replicas, counting_disabled))

(***************************************************************************)
(* Paths and the filesystem calls of the two transfer handlers             *)
(***************************************************************************)

\* A path is the sequence of its components; a component is the sequence of
\* the pieces of text it was put together from, so that appending a suffix to
\* a path is the concatenation the code performs.
Dot == <<".">>
ARCHIVEMATICA_SUFFIX == ".__onedata_archivematica"

\* os.path.normpath: "." components and empty components are dropped.
NotDot(c) == c # Dot /\ c # <<>>
normpath(p) == SelectSeq(p, NotDot)

\* path + suffix (lines 189, 199): text appended to the last component.
AddSuffix(p, suffix) == [p EXCEPT ![Len(p)] = @ \o <<suffix>>]

\* os.path.join of two relative pieces.
JoinSwapped(p, q) == q \o p

join(p, q) == p \o q

\* os.path.relpath(root, start) for a root at or below start.
relpath(root, start) ==
    IF root = start THEN <<Dot>> ELSE SubSeq(root, Len(start) + 1, Len(root))

\* The directory or file a path names: the kernel skips "." components.
Resolve(p) == SelectSeq(p, NotDot)

Prefixes(p) == {SubSeq(p, 1, n) : n \in 1..Len(p)}

Parent(p) == SubSeq(p, 1, Len(p) - 1)

\* The source side.  tree holds the directories and the regular files below
\* a root, as relative paths; treeAt holds the roots under which this tree
\* is visible.  A root that carries the suffix is a virtual directory of the
\* oneclient (--enable-archivematica, line 312): it is there only while the
\* mount answers.
HasSuffix(root) ==
    root # <<>> /\ root[Len(root)] # <<>>
    /\ root[Len(root)][Len(root[Len(root)])] = ARCHIVEMATICA_SUFFIX

SrcVisible(root, tr, at, ms) ==
    root \in at /\ (HasSuffix(root) => ms = "Mounted")

\* The names of the children of rel among paths, in the order os.listdir
\* gives them (the position of the name in order).
RECURSIVE InOrder(_, _)
InOrder(order, names) ==
    IF order = <<>> THEN <<>>
    ELSE IF Head(order) \in names THEN <<Head(order)>> \o InOrder(Tail(order), names)
    ELSE InOrder(Tail(order), names)

ChildNames(paths, rel) ==
    {p[Len(p)] : p \in {q \in paths : Len(q) = Len(rel) + 1 /\ SubSeq(q, 1, Len(rel)) = rel}}

\* os.walk(top), top-down: one (root, dirs, files) triple per directory, a
\* directory before its subdirectories.  Nothing is yielded for a top that
\* cannot be listed (os.walk ignores the error).
RECURSIVE WalkBelow(_, _, _, _)
RECURSIVE WalkEach(_, _, _, _, _)
WalkBelow(top, rel, tr, order) ==
    LET dirs == InOrder(order, ChildNames(tr.dirs, rel))
        files == InOrder(order, ChildNames(tr.files, rel))
    IN  <<[root |-> join(top, rel), dirs |-> dirs, files |-> files]>>
        \o WalkEach(top, rel, dirs, tr, order)
WalkEach(top, rel, dirs, tr, order) ==
    IF dirs = <<>> THEN <<>>
    ELSE WalkBelow(top, Append(rel, Head(dirs)), tr, order)
         \o WalkEach(top, rel, Tail(dirs), tr, order)

walk(top, tr, at, ms, order) ==
    IF SrcVisible(top, tr, at, ms) THEN WalkBelow(top, <<>>, tr, order) ELSE <<>>

\* The destination side: the directories that exist and the symbolic links,
\* both by resolved path.
Fs(dirs, links) == [dirs |-> dirs, links |-> links]

LinkAt(fs, p) == {l \in fs.links : l.at = Resolve(p)}

\* The source files that can be reached now, by absolute path.
SrcFiles(tr, at, ms) ==
    {join(root, f) : root \in {r \in at : SrcVisible(r, tr, at, ms)}, f \in tr.files}

\* os.path.isdir / os.path.exists / os.path.islink on the destination side.
\* exists() follows a link: it answers for the link's target, a source file
\* or a path that is gone.
isdir(fs, p) == Resolve(p) \in fs.dirs
exists(fs, p, srcFiles) ==
    Resolve(p) \in fs.dirs \/ \E l \in LinkAt(fs, p) : l.to \in srcFiles
islink(fs, p) == LinkAt(fs, p) # {}

\* os.makedirs(p): creates p and its missing ancestors; OSError when p
\* exists or when an ancestor is not a directory.
makedirs(fs, p) ==
    LET r == Resolve(p)
    IN  IF r \in fs.dirs \/ \E q \in Prefixes(r) : LinkAt(fs, q) # {}
        THEN [raised |-> "OSError", fs |-> fs]
        ELSE [raised |-> "none", fs |-> Fs(fs.dirs \cup Prefixes(r), fs.links)]

\* os.symlink(target, at): OSError when something is at the path already,
\* when the directory of the path is missing, or when the call is refused
\* (permission, I/O: denied).
symlink(fs, target, at, denied) ==
    LET r == Resolve(at)
    IN  IF denied \/ r \in fs.dirs \/ LinkAt(fs, r) # {}
           \/ (Len(r) > 1 /\ Parent(r) \notin fs.dirs)
        THEN [raised |-> "OSError", fs |-> fs]
        ELSE [raised |-> "none",
              fs |-> Fs(fs.dirs, fs.links \cup {[at |-> r, to |-> target]})]

\* Space.create_local_directory(path): creates the directory, or fails
\* without raising.
create_local_directory(fs, p, ok) ==
    IF ok /\ ~isdir(fs, p) /\ makedirs(fs, p).raised = "none"
    THEN makedirs(fs, p).fs
    ELSE fs

(***************************************************************************)
(* move_to_storage_service and move_from_storage_service                   *)
(***************************************************************************)

NoFault == <<>>

Transfer(fs, raised, failed) == [fs |-> fs, raised |-> raised, failed |-> failed]

MirrorDirsSkipped(dirs, root, src_path, dest_path, st, to_ss, srcFiles) == st

\* The "for d in dirs" loops (lines 220-225 and 255-259).  to_ss: the loop of
\* move_to_storage_service, which normalises the joined path.  makedirs is
\* not guarded in either handler: its OSError leaves the handler.
RECURSIVE MirrorDirs(_, _, _, _, _, _, _)
MirrorDirs(dirs, root, src_path, dest_path, st, to_ss, srcFiles) ==
    IF dirs = <<>> \/ st.raised # "none" THEN st
    ELSE LET rel_root == relpath(root, src_path)
             joined == join(dest_path, join(rel_root, <<Head(dirs)>>))
             dest_dir == IF to_ss THEN normpath(joined) ELSE joined
             made == IF exists(st.fs, dest_dir, srcFiles)
                     THEN [raised |-> "none", fs |-> st.fs]
                     ELSE makedirs(st.fs, dest_dir)
         IN  MirrorDirs(Tail(dirs), root, src_path, dest_path,
                        Transfer(made.fs, made.raised, st.failed), to_ss, srcFiles)

\* A symlink failure that always leaves the handler.
LinkFailureAlwaysRaises(to_ss) == TRUE

\* Whether an exception of os.symlink leaves the handler: lines 231-237 catch
\* it in move_to_storage_service, line 264 has no try around it.
LinkFailureRaises(to_ss) == ~to_ss

\* The "for f in files" loops (lines 226-237 and 260-264).  failed collects
\* the files whose symlink call raised.
RECURSIVE MirrorFiles(_, _, _, _, _, _, _)
MirrorFiles(files, root, src_path, dest_path, st, to_ss, fault) ==
    IF files = <<>> \/ st.raised # "none" THEN st
    ELSE LET rel_root == relpath(root, src_path)
             rel_file == join(rel_root, <<Head(files)>>)
             joined == join(dest_path, rel_file)
             dest_file == IF to_ss THEN normpath(joined) ELSE joined
             linked == symlink(st.fs, join(root, <<Head(files)>>), dest_file,
                               Resolve(rel_file) = fault)
             next == IF linked.raised = "none" THEN Transfer(linked.fs, "none", st.failed)
                     ELSE Transfer(st.fs,
                                   IF LinkFailureRaises(to_ss) THEN linked.raised ELSE "none",
                                   st.failed \cup {Resolve(rel_file)})
         IN  MirrorFiles(Tail(files), root, src_path, dest_path, next, to_ss, fault)

\* The "for root, dirs, files in os.walk(src_path)" loops.
RECURSIVE Mirror(_, _, _, _, _, _, _)
Mirror(steps, src_path, dest_path, st, to_ss, fault, srcFiles) ==
    IF steps = <<>> \/ st.raised # "none" THEN st
    ELSE LET w == Head(steps)
             afterDirs == MirrorDirs(w.dirs, w.root, src_path, dest_path, st, to_ss, srcFiles)
             afterFiles == MirrorFiles(w.files, w.root, src_path, dest_path,
                                       afterDirs, to_ss, fault)
         IN  Mirror(Tail(steps), src_path, dest_path, afterFiles, to_ss, fault, srcFiles)

\* move_to_storage_service after self.mount() returned: lines 207-237.
move_to_storage_service(fs, src_path_, dest_path_, tr, at, ms, order, fault, cld_ok) ==
    LET src_path == AddSuffix(normpath(src_path_), ARCHIVEMATICA_SUFFIX)
        dest_path == normpath(dest_path_)
        created == create_local_directory(fs, dest_path, cld_ok)
        retried == IF ~isdir(created, dest_path)
                   THEN makedirs(created, dest_path).fs     \* an exception is logged
                   ELSE created
    IN  Mirror(walk(src_path, tr, at, ms, order), src_path, dest_path,
               Transfer(retried, "none", {}), TRUE, fault, SrcFiles(tr, at, ms))

\* move_from_storage_service after self.mount() returned: lines 251-264.
move_from_storage_service(fs, src_path_, dest_path_, tr, at, ms, order, fault, cld_ok) ==
    LET src_path == normpath(src_path_)
        dest_path == normpath(dest_path_)
        created == create_local_directory(fs, dest_path, cld_ok)
    IN  Mirror(walk(src_path, tr, at, ms, order), src_path, dest_path,
               Transfer(created, "none", {}), FALSE, fault, SrcFiles(tr, at, ms))

(***************************************************************************)
(* The handlers as actions                                                 *)
(***************************************************************************)

\* What a call left behind: the commands mount() issued, how mount() ended,
\* whether the mount answered when mount() was over (live), how the call
\* ended (raised), the listing it returned, and for a transfer the walked
\* source path, the refused file, the files whose link failed and the
\* destination before the call.
Call(op, run, raised, scanned, result, walked, fault, failed, before) ==
    [op |-> op, cmds |-> run.cmds, mount_raised |-> run.raised,
     live |-> run.ms = "Mounted", raised |-> raised, scanned |-> scanned,
     result |-> result, walked |-> walked, fault |-> fault, failed |-> failed,
     before |-> before]

NoCall == Call("none", MountRun(<<>>, "none", "Unmounted", FALSE), "none", FALSE,
               NoScan, <<>>, NoFault, {}, Fs({}, {}))

\* The arguments of the calls.
\* The arguments of the calls: "A/" and "B/", with the empty last component
\* of a trailing slash.
SrcA == <<<<"A">>>>
DestB == <<<<"B">>>>
SrcArg == Append(SrcA, <<>>)
DestArg == Append(DestB, <<>>)

FileNames == {<<"f">>, <<"g">>}
DirName == <<"d">>

\* The orders in which os.listdir may give the names of a directory: they
\* differ where two files share a directory.
ListOrders(tr) ==
    IF \A n \in FileNames : <<n>> \in tr.files
    THEN {<<DirName, <<"f">>, <<"g">>>>, <<DirName, <<"g">>, <<"f">>>>}
    ELSE {<<DirName, <<"f">>, <<"g">>>>}

\* Onedata.browse: lines 188-195.
Browse ==
    \E run \in mount(cfg, mountState, mountpointExists) :
        /\ mountState' = run.ms
        /\ mountpointExists' = run.mp
        /\ IF run.raised # "none"
           THEN last' = Call("browse", run, run.raised, FALSE, NoScan,
                             <<>>, NoFault, {}, dest)
           ELSE LET res == generate_directory_tree(run.ms, listing,
                               cfg.only_local_replicas, object_counting_disabled)
                IN  last' = Call("browse", run, res.raised, TRUE, res,
                                 <<>>, NoFault, {}, dest)
        /\ UNCHANGED <<cfg, object_counting_disabled, listing, tree, treeAt, dest>>
        /\ UNCHANGED otherVars

\* Onedata.move_to_storage_service: lines 197-237.
MoveTo ==
    \E run \in mount(cfg, mountState, mountpointExists), order \in ListOrders(tree), fault \in tree.files \cup {NoFault}, cld_ok \in BOOLEAN :
        /\ mountState' = run.ms
        /\ mountpointExists' = run.mp
        /\ IF run.raised # "none"
           THEN /\ dest' = dest
                /\ last' = Call("move_to", run, run.raised, FALSE, NoScan,
                                <<>>, fault, {}, dest)
           ELSE LET t == move_to_storage_service(dest, SrcArg, DestArg, tree, treeAt,
                                                 run.ms, order, fault, cld_ok)
                IN  /\ dest' = t.fs
                    /\ last' = Call("move_to", run, t.raised, FALSE, NoScan,
                                    AddSuffix(normpath(SrcArg), ARCHIVEMATICA_SUFFIX),
                                    fault, t.failed, dest)
        /\ UNCHANGED <<cfg, object_counting_disabled, listing, tree, treeAt>>
        /\ UNCHANGED otherVars

\* Onedata.move_from_storage_service: lines 241-264.
MoveFrom ==
    \E run \in mount(cfg, mountState, mountpointExists), order \in ListOrders(tree), fault \in tree.files \cup {NoFault}, cld_ok \in BOOLEAN :
        /\ mountState' = run.ms
        /\ mountpointExists' = run.mp
        /\ IF run.raised # "none"
           THEN /\ dest' = dest
                /\ last' = Call("move_from", run, run.raised, FALSE, NoScan,
                                <<>>, fault, {}, dest)
           ELSE LET t == move_from_storage_service(dest, SrcArg, DestArg, tree, treeAt,
                                                   run.ms, order, fault, cld_ok)
                IN  /\ dest' = t.fs
                    /\ last' = Call("move_from", run, t.raised, FALSE, NoScan,
                                    normpath(SrcArg), fault, t.failed, dest)
        /\ UNCHANGED <<cfg, object_counting_disabled, listing, tree, treeAt>>
        /\ UNCHANGED otherVars

\* The mount is altered out of band: the oneclient dies or hangs, or an
\* operator mounts or unmounts it.
MountAltered ==
    /\ \E ms \in MountStates \ {mountState} :
        /\ ms # "Unmounted" => mountpointExists
        /\ mountState' = ms
    /\ UNCHANGED <<cfg, object_counting_disabled, mountpointExists, listing,
                   tree, treeAt, dest, last>>
    /\ UNCHANGED otherVars

(***************************************************************************)
(* Onedata.save                                                            *)
(***************************************************************************)

\* The paths a space may carry: none, the path save() refuses, the same
\* directory written with a trailing slash, and another directory.
SpacePaths == {"", "/tmp/oneclient", "/tmp/oneclient/", "/mnt/oneclient"}

\* The fields of the record that is saved.
RecordFields ==
    [oneclient_rest_endpoint : BOOLEAN, manually_mounted : BOOLEAN,
     only_local_replicas : BOOLEAN, oneclient_cli : BOOLEAN]

\* "raise StorageError(...)", lines 270 and 273: the module imports no
\* StorageError, so evaluating the name raises NameError.
RaiseStorageError == "NameError"

\* Onedata.save, lines 268-275: the two checks of space.path, then the
\* save of the model, which writes the row.
save(space_path, fields, stored) ==
    IF space_path = "" THEN [raised |-> RaiseStorageError, stored |-> stored]
    ELSE IF space_path = "/tmp/oneclient"
    THEN [raised |-> RaiseStorageError, stored |-> stored]
    ELSE [raised |-> "none", stored |-> fields]

\* One call of save(): the path of the space, the fields handed over, the
\* row before and after, and the exception that left save().
Saved(op, space_path, fields, before, stored, raised) ==
    [op |-> op, space_path |-> space_path, fields |-> fields, before |-> before,
     stored |-> stored, raised |-> raised]

\* Before any call: the row as it was first stored.
NoRecord ==
    LET row == [oneclient_rest_endpoint |-> FALSE, manually_mounted |-> FALSE,
                only_local_replicas |-> FALSE, oneclient_cli |-> FALSE]
    IN  Saved("none", "", row, row, row, "none")

Save ==
    /\ \E space_path \in SpacePaths, fields \in RecordFields :
           LET r == save(space_path, fields, record.stored)
           IN  record' = Saved("save", space_path, fields, record.stored,
                               r.stored, r.raised)
    /\ UNCHANGED driverVars
    /\ UNCHANGED <<ret, calls, sword, auth, fetch, fixity>>

(***************************************************************************)
(* Calls that run at the same time                                         *)
(***************************************************************************)

\* The handlers take no lock and the module holds none: two requests served
\* by two workers run browse() side by side, and each blocking call of a
\* handler (one GET of execute_in_pod, the scan) is one step.

Callers == {1, 2}

\* Where a call stands: idle, about to issue the command pc names ("ls",
\* "mkdir", "fusermount", "oneclient"), in mount() of the local branch
\* ("local"), scanning ("scan") or done; whether the mount answered when
\* its mount() returned; the exception that ended it.
CallAt(pc, live, raised) == [pc |-> pc, live |-> live, raised |-> raised]

NoCalls == [c \in Callers |-> CallAt("idle", FALSE, "none")]

\* The command after cmd in lines 324-339, given how cmd ended: an
\* exception leaves the try block (line 340) and mount() returns; a probe
\* that answers and names the space skips the remount.
AfterCommand(cmd, r) ==
    IF r.raised THEN "scan"
    ELSE CASE cmd = "ls" -> IF r.exit_code = 0 /\ r.names_space THEN "scan" ELSE "mkdir"
           [] cmd = "mkdir" -> "fusermount"
           [] cmd = "fusermount" -> "oneclient"
           [] cmd = "oneclient" -> "scan"

\* browse() is entered (lines 188-193): mount() starts in the branch the
\* record selects.
Enter(c) ==
    /\ calls[c].pc \in {"idle", "done"}
    /\ calls' = [calls EXCEPT ![c] =
                    CallAt(IF cfg.oneclient_rest_endpoint THEN "ls" ELSE "local",
                           FALSE, "none")]
    /\ UNCHANGED driverVars
    /\ UNCHANGED <<ret, record, sword, auth, fetch, fixity>>

\* Line 326: the probe through the exec endpoint.
Probe(c) ==
    /\ calls[c].pc = "ls"
    /\ \E r \in execute_in_pod("ls", mountState, mountpointExists) :
           /\ mountState' = r.ms
           /\ mountpointExists' = r.mp
           /\ calls' = [calls EXCEPT ![c] =
                           CallAt(AfterCommand("ls", r),
                                  AfterCommand("ls", r) = "scan" /\ r.ms = "Mounted",
                                  "none")]
    /\ UNCHANGED <<cfg, object_counting_disabled, listing, tree, treeAt, dest, last>>
    /\ UNCHANGED <<ret, record, sword, auth, fetch, fixity>>

\* Lines 332-339: the next command of the remount.
Remount(c) ==
    /\ calls[c].pc \in {"mkdir", "fusermount", "oneclient"}
    /\ \E r \in execute_in_pod(calls[c].pc, mountState, mountpointExists) :
           /\ mountState' = r.ms
           /\ mountpointExists' = r.mp
           /\ calls' = [calls EXCEPT ![c] =
                           CallAt(AfterCommand(calls[c].pc, r),
                                  AfterCommand(calls[c].pc, r) = "scan"
                                      /\ r.ms = "Mounted",
                                  "none")]
    /\ UNCHANGED <<cfg, object_counting_disabled, listing, tree, treeAt, dest, last>>
    /\ UNCHANGED <<ret, record, sword, auth, fetch, fixity>>

\* Lines 343-358: mount() of the local branch, which issues no command
\* that alters the mount.
MountLocally(c) ==
    /\ calls[c].pc = "local"
    /\ \E run \in LocalMount(mountState, mountpointExists) :
           /\ mountState' = run.ms
           /\ mountpointExists' = run.mp
           /\ calls' = [calls EXCEPT ![c] =
                           IF run.raised # "none" THEN CallAt("done", FALSE, run.raised)
                           ELSE CallAt("scan", run.ms = "Mounted", "none")]
    /\ UNCHANGED <<cfg, object_counting_disabled, listing, tree, treeAt, dest, last>>
    /\ UNCHANGED <<ret, record, sword, auth, fetch, fixity>>

\* Line 195: generate_directory_tree on the mount as it is by now.
Scan(c) ==
    /\ calls[c].pc = "scan"
    /\ LET res == generate_directory_tree(mountState, listing,
                       cfg.only_local_replicas, object_counting_disabled)
       IN  calls' = [calls EXCEPT ![c] = CallAt("done", calls[c].live, res.raised)]
    /\ UNCHANGED driverVars
    /\ UNCHANGED <<ret, record, sword, auth, fetch, fixity>>

(***************************************************************************)
(* The SWORD views (locations/api/sword/views.py)                          *)
(***************************************************************************)

MaxDownloads == 2

SwordNames == {"a", "b"}
Absent == "absent"

\* The requests: the method, whether a User-Agent header came with it, the
\* Content-Disposition and Content-MD5 headers, the body, and the filename
\* of the query string.
Request(method, user_agent, content_disposition, content_md5, body, filename) ==
    [method |-> method, user_agent |-> user_agent,
     content_disposition |-> content_disposition, content_md5 |-> content_md5,
     body |-> body, filename |-> filename]

\* Each method with the headers and parameters its branch reads: the upload
\* headers and the body on POST and PUT, the query string on DELETE.
Requests ==
    {Request(m, ua, Absent, Absent, "x", "") : m \in {"GET", "PATCH"}, ua \in BOOLEAN}
    \cup {Request(m, ua, cd, md5, body, "")
          : m \in {"POST", "PUT"}, ua \in BOOLEAN,
            cd \in {Absent, "attachment", "attachment; filename=a"},
            md5 \in {Absent, "md5(x)"}, body \in {"x", "y"}}
    \cup {Request("DELETE", ua, Absent, Absent, "x", f) : ua \in BOOLEAN, f \in {"", "a"}}

\* helpers.parse_filename_from_content_disposition: the filename parameter
\* of the header, '' when it has none.
parse_filename_from_content_disposition(header) ==
    IF header = "attachment; filename=a" THEN "a" ELSE ""

\* helpers.get_file_md5_checksum of a file with the given content.
get_file_md5_checksum(content) ==
    IF content = "x" THEN "md5(x)" ELSE "md5(y)"

Response(status, body) == [status |-> status, body |-> body, raised |-> "none"]
Raised(exception) == [status |-> 0, body |-> "", raised |-> exception]

\* _sword_error_response, lines 496-501: line 499 subscripts request.META
\* with 'HTTP_USER_AGENT', which raises KeyError for a request that has
\* no such header.
sword_error_response(request, status) ==
    IF request.user_agent THEN Response(status, "error") ELSE Raised("KeyError")

\* _deposit_has_been_submitted_for_processing, lines 510-517: line 512
\* reads models.Deposit, and views.py binds no name models; the NameError
\* is caught by the bare except of line 516, which returns False.
deposit_has_been_submitted_for_processing(deposit) == FALSE

\* Lines 450-459.
task_state(deposit) ==
    IF deposit.downloads_attempted = 0 THEN "Complete"
    ELSE IF deposit.download_completion_time = "None" THEN "Incomplete"
    ELSE IF deposit.downloads_attempted = deposit.downloads_completed THEN "Complete"
    ELSE "Failed"

\* deposit_state, lines 423-471.
deposit_state(request, deposit) ==
    IF request.method = "GET" THEN Response(200, task_state(deposit))
    ELSE sword_error_response(request, 405)

Upload(response, files) == [response |-> response, files |-> files]

\* _handle_upload_request_with_potential_md5_checksum, lines 397-415: the
\* body goes to a temporary file, which is copied over file_path unless a
\* Content-MD5 header differs from its checksum.
handle_upload_request_with_potential_md5_checksum(request, files, filename, success_status_code) ==
    IF request.content_md5 # Absent
          /\ request.content_md5 # get_file_md5_checksum(request.body)
    THEN Upload(sword_error_response(request, 400), files)
    ELSE Upload(Response(success_status_code, ""),
                [files EXCEPT ![filename] = request.body])

\* _handle_upload_request, lines 356-395.
handle_upload_request(request, files, replace_file) ==
    IF request.content_disposition = Absent
    THEN Upload(sword_error_response(request, 400), files)
    ELSE LET filename == parse_filename_from_content_disposition(
                             request.content_disposition)
         IN  IF filename = "" THEN Upload(sword_error_response(request, 400), files)
             ELSE IF replace_file
             THEN IF files[filename] # Absent
                  THEN handle_upload_request_with_potential_md5_checksum(
                           request, files, filename, 204)
                  ELSE Upload(sword_error_response(request, 400), files)
             ELSE IF files[filename] # Absent
                  THEN Upload(sword_error_response(request, 400), files)
                  ELSE handle_upload_request_with_potential_md5_checksum(
                           request, files, filename, 201)

\* deposit_media, lines 301-354, on a deposit whose directory exists.
deposit_media(request, deposit, files) ==
    IF deposit_has_been_submitted_for_processing(deposit)
    THEN Upload(sword_error_response(request, 400), files)
    ELSE CASE request.method = "GET" ->
                Upload(Response(200, {n \in SwordNames : files[n] # Absent}), files)
           [] request.method = "PUT" -> handle_upload_request(request, files, TRUE)
           [] request.method = "POST" -> handle_upload_request(request, files, FALSE)
           [] request.method = "DELETE" ->
                IF request.filename # ""
                THEN IF files[request.filename] # Absent
                     THEN Upload(Response(204, ""),
                                 [files EXCEPT ![request.filename] = Absent])
                     ELSE Upload(sword_error_response(request, 404), files)
                ELSE Upload(Response(204, ""), [n \in SwordNames |-> Absent])
           [] OTHER -> Upload(sword_error_response(request, 405), files)

\* The deposit row, the files of the deposit before and after the last
\* request, the view that served it, the request and the response.
Served(deposit, before, files, view, request, response) ==
    [deposit |-> deposit, before |-> before, files |-> files, view |-> view,
     request |-> request, response |-> response]

NoFiles == [n \in SwordNames |-> Absent]

\* Before any request: a deposit as it is created, with no download
\* attempted and an empty directory.
NoSword ==
    Served([downloads_attempted |-> 0, downloads_completed |-> 0,
            download_completion_time |-> "None"],
           NoFiles, NoFiles, "none",
           Request("none", FALSE, Absent, Absent, "x", ""), Response(0, ""))

DepositState ==
    /\ \E request \in Requests :
           sword' = Served(sword.deposit, sword.files, sword.files, "deposit_state",
                           request, deposit_state(request, sword.deposit))
    /\ UNCHANGED driverVars
    /\ UNCHANGED <<ret, record, calls, auth, fetch, fixity>>

DepositMedia ==
    /\ \E request \in Requests :
           LET u == deposit_media(request, sword.deposit, sword.files)
           IN  sword' = Served(sword.deposit, sword.files, u.files, "deposit_media",
                               request, u.response)
    /\ UNCHANGED driverVars
    /\ UNCHANGED <<ret, record, calls, auth, fetch, fixity>>

(***************************************************************************)
(* The collection view and the fetch process (views.py, lines 47-203)      *)
(***************************************************************************)

\* The body of a request to the collection: its text ('' or not), whether
\* etree.parse accepts it, the LABEL of its root and the content URLs of
\* its FLocat elements.
Body(text, xml, label, urls) == [text |-> text, xml |-> xml, label |-> label, urls |-> urls]

\* A request to the collection: the method, whether a User-Agent header
\* came with it, the In-Progress header and the body.
CollectionRequest(method, user_agent, in_progress, body) ==
    [method |-> method, user_agent |-> user_agent, in_progress |-> in_progress,
     body |-> body]

CollectionRequests ==
    {CollectionRequest(m, ua, Absent, Body("", FALSE, Absent, <<>>))
     : m \in {"GET", "PUT"}, ua \in BOOLEAN}
    \cup {CollectionRequest("POST", ua, ip, body)
          : ua \in BOOLEAN, ip \in {Absent, "true", "false"},
            body \in {Body("", FALSE, Absent, <<>>), Body("x", FALSE, Absent, <<>>),
                      Body("<mets/>", TRUE, Absent, <<>>)}
                     \cup {Body("<mets LABEL=a/>", TRUE, "a", [i \in 1..n |-> i])
                           : n \in 0..MaxDownloads}}

\* _create_deposit_directory_and_db_entry, lines 149-174: os.mkdir raises
\* OSError when the directory of that name exists.
create_deposit_directory_and_db_entry(name, dirs, rows) ==
    IF name \in dirs
    THEN [raised |-> "OSError", dirs |-> dirs, rows |-> rows]
    ELSE [raised |-> "none", dirs |-> dirs \cup {name}, rows |-> rows \cup {name}]

\* What a request to the collection did: the response, the deposit
\* directories and rows after it, and the content URLs handed to the
\* process it started, if it started one.
Collected(response, dirs, rows, started, urls) ==
    [response |-> response, dirs |-> dirs, rows |-> rows, started |-> started,
     urls |-> urls]

\* collection, lines 47-147.  location: helpers.deposit_location_path is a
\* directory.
collection(request, location, dirs, rows) ==
    LET refused(status) ==
            Collected(sword_error_response(request, status), dirs, rows, FALSE, <<>>)
    IN  IF request.method = "GET"
        THEN Collected(Response(200, "feed"), dirs, rows, FALSE, <<>>)
        ELSE IF request.method # "POST" THEN refused(405)
        ELSE IF request.in_progress # "true" THEN refused(412)
        ELSE IF request.body.text = "" THEN refused(412)
        ELSE IF ~request.body.xml THEN refused(412)
        ELSE IF request.body.label = Absent THEN refused(400)
        ELSE IF ~location THEN refused(500)
        ELSE LET c == create_deposit_directory_and_db_entry(
                          request.body.label, dirs, rows)
             IN  IF c.raised # "none" THEN refused(400)
                 ELSE Collected(Response(201, "receipt"), c.dirs, c.rows, TRUE,
                                request.body.urls)

\* The process that runs _fetch_content: where it stands, the URLs it was
\* given, the index of the next one, its local completed and filename (the
\* empty sequence while the name is not bound), and the exception that
\* ended it.
Unbound == <<>>
FetchAt(pc, urls, next, completed, filename, raised) ==
    [pc |-> pc, urls |-> urls, next |-> next, completed |-> completed,
     filename |-> filename, raised |-> raised]

NoProcess == FetchAt("none", <<>>, 1, 0, Unbound, "none")

\* Lines 178-181 with the attempted downloads left as they were.
FetchBeginCountsNothing(deposit, object_content_urls) ==
    [deposit EXCEPT !.downloads_completed = 0]

\* _fetch_content, lines 178-181.
fetch_begin(deposit, object_content_urls) ==
    [deposit EXCEPT !.downloads_attempted = Len(object_content_urls),
                    !.downloads_completed = 0]

\* _fetch_content, one turn of the loop of lines 188-195.  A download that
\* raised is passed over by the bare except, and shutil.move of line 194 then
\* reads filename: a name not bound yet (NameError) or the name of the
\* file of the turn before, which is in the temporary directory no more
\* (IOError).
fetch_download(p, downloaded) ==
    IF downloaded
    THEN FetchAt("loop", p.urls, p.next + 1, p.completed + 1, <<p.urls[p.next]>>, "none")
    ELSE FetchAt("died", p.urls, p.next, p.completed, p.filename,
                 IF p.filename = Unbound THEN "NameError" ELSE "IOError")

\* _fetch_content, lines 201-203.
fetch_end(deposit, completed) ==
    [deposit EXCEPT !.downloads_completed = completed,
                    !.download_completion_time = "set"]

\* The collection: whether the location path is a directory, the deposit
\* directories and rows, the row of the deposit, the fetch process, and the
\* last request with its response, whether it started a process and what
\* was there before it.
Fetch(location, dirs, rows, deposit, process, request, response, started, before) ==
    [location |-> location, dirs |-> dirs, rows |-> rows, deposit |-> deposit,
     process |-> process, request |-> request, response |-> response,
     started |-> started, before |-> before]

\* Before any request: no deposit, and the row as it is created.
NoFetch ==
    Fetch(TRUE, {}, {}, NoSword.deposit, NoProcess,
          CollectionRequest("none", FALSE, Absent, Body("", FALSE, Absent, <<>>)),
          Response(0, ""), FALSE, [dirs |-> {}, rows |-> {}])

\* A request to the collection is served.
Collection ==
    /\ \E request \in CollectionRequests :
           LET c == collection(request, fetch.location, fetch.dirs, fetch.rows)
           IN  fetch' = Fetch(fetch.location, c.dirs, c.rows, fetch.deposit,
                              IF c.started
                              THEN FetchAt("started", c.urls, 1, 0, Unbound, "none")
                              ELSE fetch.process,
                              request, c.response, c.started,
                              [dirs |-> fetch.dirs, rows |-> fetch.rows])
    /\ UNCHANGED driverVars
    /\ UNCHANGED <<ret, record, calls, sword, auth, fixity>>

\* The steps of the fetch process.
FetchBegin ==
    /\ fetch.process.pc = "started"
    /\ fetch' = [fetch EXCEPT
                   !.deposit = fetch_begin(fetch.deposit, fetch.process.urls),
                   !.process.pc = "loop"]
    /\ UNCHANGED driverVars
    /\ UNCHANGED <<ret, record, calls, sword, auth, fixity>>

FetchDownload ==
    /\ fetch.process.pc = "loop"
    /\ fetch.process.next <= Len(fetch.process.urls)
    /\ \E downloaded \in BOOLEAN :
           fetch' = [fetch EXCEPT !.process = fetch_download(fetch.process, downloaded)]
    /\ UNCHANGED driverVars
    /\ UNCHANGED <<ret, record, calls, sword, auth, fixity>>

FetchEnd ==
    /\ fetch.process.pc = "loop"
    /\ fetch.process.next > Len(fetch.process.urls)
    /\ fetch' = [fetch EXCEPT
                   !.deposit = fetch_end(fetch.deposit, fetch.process.completed),
                   !.process.pc = "done"]
    /\ UNCHANGED driverVars
    /\ UNCHANGED <<ret, record, calls, sword, auth, fixity>>

(***************************************************************************)
(* The CAS login receiver (locations/signals.py)                           *)
(***************************************************************************)

Usernames == {"u1", "u2"}
AttributeNames == {"groups", "mail"}

\* The value a CAS attribute has: no such key, a string, or a list of
\* strings.
NoValue == [type |-> "none", str |-> "", list |-> <<>>]
Str(v) == [type |-> "str", str |-> v, list |-> <<>>]
List(l) == [type |-> "list", str |-> "", list |-> l]

AttributeValues ==
    {NoValue, Str("admin"), Str("staff"), List(<<>>), List(<<"admin">>),
     List(<<"staff">>), List(<<"staff", "admin">>)}

\* kwargs.get("attributes"): None, or a dictionary.
Attributes(given, items) == [given |-> given, items |-> items]
NoAttributes == Attributes(FALSE, [k \in AttributeNames |-> NoValue])

\* "not attributes", line 202: None and the empty dictionary.
IsEmpty(attributes) ==
    ~attributes.given \/ \A k \in AttributeNames : attributes.items[k] = NoValue

\* _user_is_administrator that knows no list-valued attribute.
UserIsAdministratorStringOnly(settings, cas_attributes) ==
    /\ settings.CAS_ADMIN_ATTRIBUTE # "None"
    /\ settings.CAS_ADMIN_ATTRIBUTE_VALUE # "None"
    /\ cas_attributes.items[settings.CAS_ADMIN_ATTRIBUTE].type = "str"
    /\ cas_attributes.items[settings.CAS_ADMIN_ATTRIBUTE].str
           = settings.CAS_ADMIN_ATTRIBUTE_VALUE

\* _user_is_administrator, lines 148-175.
user_is_administrator(settings, cas_attributes) ==
    IF settings.CAS_ADMIN_ATTRIBUTE = "None" \/ settings.CAS_ADMIN_ATTRIBUTE_VALUE = "None"
    THEN FALSE
    ELSE LET ATTRIBUTE_TO_CHECK == cas_attributes.items[settings.CAS_ADMIN_ATTRIBUTE]
         IN  IF ATTRIBUTE_TO_CHECK.type = "list"
             THEN \E i \in DOMAIN ATTRIBUTE_TO_CHECK.list :
                      ATTRIBUTE_TO_CHECK.list[i] = settings.CAS_ADMIN_ATTRIBUTE_VALUE
             ELSE IF ATTRIBUTE_TO_CHECK.type = "str"
             THEN ATTRIBUTE_TO_CHECK.str = settings.CAS_ADMIN_ATTRIBUTE_VALUE
             ELSE FALSE

\* cas_user_authenticated_callback, lines 178-209, on the stored flags
\* is_superuser of the users: the flags after the call.
cas_user_authenticated_callback(settings, users, username, attributes) ==
    IF ~settings.CAS_CHECK_ADMIN_ATTRIBUTES THEN users
    ELSE IF IsEmpty(attributes) THEN users
    ELSE LET is_administrator == user_is_administrator(settings, attributes)
         IN  IF users[username] # is_administrator
             THEN [users EXCEPT ![username] = is_administrator]
             ELSE users

\* One login: who logged in, whether django_cas_ng created the user for
\* it, the attributes the CAS server sent, and the stored flags before the
\* receiver ran.
Login(user, created, attributes, before) ==
    [user |-> user, created |-> created, attributes |-> attributes, before |-> before]

CasSettings ==
    [CAS_CHECK_ADMIN_ATTRIBUTES : BOOLEAN, CAS_ADMIN_ATTRIBUTE : {"None", "groups"},
     CAS_ADMIN_ATTRIBUTE_VALUE : {"None", "admin"}]

Auth(settings, users, login) == [settings |-> settings, users |-> users, login |-> login]

NoAuth ==
    Auth([CAS_CHECK_ADMIN_ATTRIBUTES |-> FALSE, CAS_ADMIN_ATTRIBUTE |-> "None",
          CAS_ADMIN_ATTRIBUTE_VALUE |-> "None"],
         [u \in Usernames |-> FALSE],
         Login("none", FALSE, NoAttributes, [u \in Usernames |-> FALSE]))

\* A user logs in through CAS: the backend creates the user when it is
\* new (a new user is no superuser), then sends cas_user_authenticated.
CasLogin ==
    /\ \E username \in Usernames, created \in BOOLEAN,
          attributes \in {NoAttributes}
                         \cup {Attributes(TRUE, items)
                               : items \in [AttributeNames -> AttributeValues]} :
           LET before == IF created THEN [auth.users EXCEPT ![username] = FALSE]
                         ELSE auth.users
           IN  auth' = Auth(auth.settings,
                            cas_user_authenticated_callback(auth.settings, before,
                                                            username, attributes),
                            Login(username, created, attributes, before))
    /\ UNCHANGED driverVars
    /\ UNCHANGED <<ret, record, calls, sword, fetch, fixity>>

(***************************************************************************)
(* The receivers of the fixity signals (locations/signals.py)              *)
(***************************************************************************)

MaxLog == 2

PackageUuids == {"p1", "p2"}

\* The report argument of a fixity signal: the JSON text of an object with
\* a message.
FixityReports == {<<"{", "message", m, "}">> : m \in {"m", "None"}}

\* json.loads of a report.
json_loads(report) == [message |-> report[3]]

\* The orders in which the query of line 26 may give the superusers.
RECURSIVE UserOrders(_)
UserOrders(users) ==
    IF users = {} THEN {<<>>}
    ELSE UNION {{<<u>> \o rest : rest \in UserOrders(users \ {u})} : u \in users}

Notified(emailed, failed) == [emailed |-> emailed, failed |-> failed]

\* A loop that the first failing email_user ends.
RECURSIVE NotifyUntilFailure(_, _)
NotifyUntilFailure(admin_users, unreachable) ==
    IF admin_users = <<>> THEN Notified({}, {})
    ELSE IF Head(admin_users) \in unreachable THEN Notified({}, {Head(admin_users)})
    ELSE LET rest == NotifyUntilFailure(Tail(admin_users), unreachable)
         IN  Notified(rest.emailed \cup {Head(admin_users)}, rest.failed)

\* _notify_administrators, lines 25-31: email_user raises for the
\* unreachable users, which is logged.
RECURSIVE notify_administrators(_, _)
notify_administrators(admin_users, unreachable) ==
    IF admin_users = <<>> THEN Notified({}, {})
    ELSE LET rest == notify_administrators(Tail(admin_users), unreachable)
             user == Head(admin_users)
         IN  IF user \in unreachable
             THEN Notified(rest.emailed, rest.failed \cup {user})
             ELSE Notified(rest.emailed \cup {user}, rest.failed)

\* _log_report, lines 62-70.
log_report(log, uuid, success, message) ==
    Append(log, [package |-> uuid, success |-> success, error_details |-> message])

\* The superusers, the FixityLog rows, and the last signal: its name, its
\* uuid and report, the rows before it and the emails it sent.
Fixity(superusers, log, signal, uuid, report, before, notified) ==
    [superusers |-> superusers, log |-> log, signal |-> signal, uuid |-> uuid,
     report |-> report, before |-> before, notified |-> notified]

NoFixity == Fixity({}, <<>>, "none", "p1", <<"{", "message", "None", "}">>, <<>>,
                   Notified({}, {}))

\* report_failed_fixity_check, lines 73-95.
ReportFailedFixityCheck ==
    /\ Len(fixity.log) < MaxLog
    /\ \E uuid \in PackageUuids, report \in FixityReports,
          admin_users \in UserOrders(fixity.superusers),
          unreachable \in SUBSET fixity.superusers :
           LET report_data == json_loads(report)
           IN  fixity' = Fixity(fixity.superusers,
                                log_report(fixity.log, uuid, "False", report_data.message),
                                "failed_fixity_check", uuid, report, fixity.log,
                                notify_administrators(admin_users, unreachable))
    /\ UNCHANGED driverVars
    /\ UNCHANGED <<ret, record, calls, sword, auth, fetch>>

\* report_successful_fixity_check, lines 98-100.
ReportSuccessfulFixityCheck ==
    /\ Len(fixity.log) < MaxLog
    /\ \E uuid \in PackageUuids, report \in FixityReports :
           fixity' = Fixity(fixity.superusers,
                            log_report(fixity.log, uuid, "True", "None"),
                            "successful_fixity_check", uuid, report, fixity.log,
                            Notified({}, {}))
    /\ UNCHANGED driverVars
    /\ UNCHANGED <<ret, record, calls, sword, auth, fetch>>

\* report_not_run_fixity_check, lines 103-107.
ReportNotRunFixityCheck ==
    /\ Len(fixity.log) < MaxLog
    /\ \E uuid \in PackageUuids, report \in FixityReports :
           LET report_data == json_loads(report)
           IN  fixity' = Fixity(fixity.superusers,
                                log_report(fixity.log, uuid, "None", report_data.message),
                                "fixity_check_not_run", uuid, report, fixity.log,
                                Notified({}, {}))
    /\ UNCHANGED driverVars
    /\ UNCHANGED <<ret, record, calls, sword, auth, fetch>>

(***************************************************************************)
(* Direct calls of the module functions                                    *)
(***************************************************************************)

\* What a direct call returned: the function, its argument, the flag
\* only_local_replicas it was given, the exception that left it and the
\* returned value.
Return(fn, arg, only_local_replicas, raised, value) ==
    [fn |-> fn, arg |-> arg, only_local_replicas |-> only_local_replicas,
     raised |-> raised, value |-> value]

NoReturn == Return("none", <<>>, FALSE, "none", 0)

\* count_objects(path, only_local_replicas) on the directory whose children
\* are listing.
CountObjects ==
    /\ \E only_local_replicas \in BOOLEAN :
           LET c == count_objects(listing, only_local_replicas)
           IN  ret' = Return("count_objects", listing, only_local_replicas,
                             c.raised, c.value)
    /\ UNCHANGED driverVars
    /\ UNCHANGED <<record, calls, sword, auth, fetch, fixity>>

\* is_local_replica(entry.path) on one child of the directory.
IsLocalReplica ==
    /\ \E i \in DOMAIN listing :
           LET r == IsLocalReplicaRun(listing[i])
           IN  ret' = Return("is_local_replica", listing[i], FALSE, r.raised, r.value)
    /\ UNCHANGED driverVars
    /\ UNCHANGED <<record, calls, sword, auth, fetch, fixity>>

\* read_directory(path, only_local_replicas) run to its end.
ReadDirectory ==
    /\ \E only_local_replicas \in BOOLEAN :
           LET d == scandir(mountState, listing)
           IN  ret' = Return("read_directory", listing, only_local_replicas, d.raised,
                             read_directory(d.entries, only_local_replicas))
    /\ UNCHANGED driverVars
    /\ UNCHANGED <<record, calls, sword, auth, fetch, fixity>>


\* Nothing but the driver's handlers is in use.
OthersIdle ==
    /\ ret = NoReturn
    /\ record = NoRecord
    /\ calls = NoCalls
    /\ sword = NoSword
    /\ auth = NoAuth
    /\ fetch = NoFetch
    /\ fixity = NoFixity

(***************************************************************************)
(* Specifications                                                          *)
(***************************************************************************)

MaxChildren == 2
MaxDepth == 1

Configs ==
    [oneclient_rest_endpoint : BOOLEAN, manually_mounted : BOOLEAN,
     only_local_replicas : {FALSE}, oneclient_cli : BOOLEAN]

LocalConfig(only_local_replicas) ==
    [oneclient_rest_endpoint |-> FALSE, manually_mounted |-> FALSE,
     only_local_replicas |-> only_local_replicas, oneclient_cli |-> FALSE]

Entry(name, is_dir, readable, size, xattr, progress, blocks) ==
    [name |-> name, is_dir |-> is_dir, readable |-> readable, size |-> size,
     xattr |-> xattr, replication_progress |-> progress, blocks_count |-> blocks]

EntryNames == {chr_a, chr_B, chr_b, chr_C}

\* A fully replicated file, a partly replicated file, a readable directory
\* with and without the attributes, a directory that cannot be read.
EntriesNamed(n) ==
    {Entry(n, FALSE, TRUE, 10, "ok", "100%", "1"),
     Entry(n, FALSE, TRUE, 20, "ok", "50%", "3"),
     Entry(n, TRUE, TRUE, 0, "ok", "100%", "1"),
     Entry(n, TRUE, TRUE, 0, "IOError", "", ""),
     Entry(n, TRUE, FALSE, 0, "ok", "50%", "1")}

AllEntries == UNION {EntriesNamed(n) : n \in EntryNames}

\* The listings scandir can give: up to MaxChildren entries, no name twice.
Listings ==
    UNION {{l \in [1..n -> AllEntries] :
                \A i, j \in 1..n : i # j => l[i].name # l[j].name}
           : n \in 0..MaxChildren}

\* The source trees: a chain of up to MaxDepth nested directories d, d/d, ...,
\* any of the files f and g at the top and the file f in each directory.
RECURSIVE DirChain(_)
DirChain(n) == IF n = 0 THEN <<>> ELSE Append(DirChain(n - 1), DirName)

Trees ==
    UNION {{[dirs |-> {DirChain(k) : k \in 1..depth},
             files |-> top \cup {Append(DirChain(k), <<"f">>) : k \in nested}]
            : top \in SUBSET {<<n>> : n \in FileNames}, nested \in SUBSET (1..depth)}
           : depth \in 0..MaxDepth}

RootA == normpath(SrcA)
RootArchivematica == AddSuffix(RootA, ARCHIVEMATICA_SUFFIX)
Roots == {RootA, RootArchivematica}

OldTarget == <<<<"old">>>>

\* The destinations a transfer may find: nothing, an empty directory, or the
\* mirrored directories with at most one link already in place.
DestInits(tr) ==
    {Fs({}, {}), Fs({DestB}, {})}
    \cup {Fs({DestB} \cup {join(DestB, d) : d \in tr.dirs},
             {[at |-> join(DestB, f), to |-> OldTarget]})
          : f \in tr.files}

SmallTree == [dirs |-> {}, files |-> {<<<<"f">>>>}]

SmallListing ==
    <<Entry(chr_B, TRUE, TRUE, 0, "ok", "100%", "1"),
      Entry(chr_a, FALSE, TRUE, 10, "ok", "50%", "3")>>

\* The driver under every configuration and every state of the mount, on a
\* fixed listing and a fixed source tree.
Init ==
    /\ cfg \in Configs
    /\ object_counting_disabled = FALSE
    /\ mountState \in MountStates
    /\ mountpointExists \in BOOLEAN
    /\ mountState # "Unmounted" => mountpointExists
    /\ listing = SmallListing
    /\ tree = SmallTree
    /\ treeAt = Roots
    /\ dest = Fs({}, {})
    /\ last = NoCall
    /\ OthersIdle

Next == Browse \/ MoveTo \/ MoveFrom \/ MountAltered

Spec == Init /\ [][Next]_vars

\* browse over every listing within the bounds, on a mount that answers.
InitScan ==
    /\ cfg \in {LocalConfig(o) : o \in BOOLEAN}
    /\ object_counting_disabled \in BOOLEAN
    /\ mountState = "Mounted"
    /\ mountpointExists = TRUE
    /\ listing \in Listings
    /\ tree = [dirs |-> {}, files |-> {}]
    /\ treeAt = Roots
    /\ dest = Fs({}, {})
    /\ last = NoCall
    /\ OthersIdle

NextScan == Browse

SpecScan == InitScan /\ [][NextScan]_vars

\* The transfers over every source tree and destination within the bounds,
\* on a mount that answers.
InitMove ==
    /\ cfg = LocalConfig(FALSE)
    /\ object_counting_disabled = FALSE
    /\ mountState = "Mounted"
    /\ mountpointExists = TRUE
    /\ listing = <<>>
    /\ tree \in Trees
    /\ treeAt \in (SUBSET Roots) \ {{}}
    /\ dest \in DestInits(tree)
    /\ last = NoCall
    /\ OthersIdle

NextMove == MoveTo \/ MoveFrom

SpecMove == InitMove /\ [][NextMove]_vars

\* The module functions called directly on every listing within the bounds.
InitFn ==
    /\ cfg = LocalConfig(FALSE)
    /\ object_counting_disabled = FALSE
    /\ mountState = "Mounted"
    /\ mountpointExists = TRUE
    /\ listing \in Listings
    /\ tree = [dirs |-> {}, files |-> {}]
    /\ treeAt = Roots
    /\ dest = Fs({}, {})
    /\ last = NoCall
    /\ OthersIdle

NextFn == CountObjects \/ IsLocalReplica \/ ReadDirectory

SpecFn == InitFn /\ [][NextFn]_vars

\* The driver at rest, for the specifications of the other handlers.
DriverIdle ==
    /\ cfg = LocalConfig(FALSE)
    /\ object_counting_disabled = FALSE
    /\ mountState = "Mounted"
    /\ mountpointExists = TRUE
    /\ listing = <<>>
    /\ tree = [dirs |-> {}, files |-> {}]
    /\ treeAt = Roots
    /\ dest = Fs({}, {})
    /\ last = NoCall

\* save() of every record within the bounds, over a row saved before.
InitSave ==
    /\ DriverIdle
    /\ ret = NoReturn
    /\ record = NoRecord
    /\ calls = NoCalls
    /\ sword = NoSword
    /\ auth = NoAuth
    /\ fetch = NoFetch
    /\ fixity = NoFixity

NextSave == Save

SpecSave == InitSave /\ [][NextSave]_vars

\* Two calls of browse side by side, through the exec endpoint or locally,
\* from every state of the mount.
InitConc ==
    /\ cfg \in {[LocalConfig(FALSE) EXCEPT !.oneclient_rest_endpoint = e] : e \in BOOLEAN}
    /\ object_counting_disabled = FALSE
    /\ mountState \in MountStates
    /\ mountpointExists \in BOOLEAN
    /\ mountState # "Unmounted" => mountpointExists
    /\ listing = SmallListing
    /\ tree = [dirs |-> {}, files |-> {}]
    /\ treeAt = Roots
    /\ dest = Fs({}, {})
    /\ last = NoCall
    /\ ret = NoReturn
    /\ record = NoRecord
    /\ calls = NoCalls
    /\ sword = NoSword
    /\ auth = NoAuth
    /\ fetch = NoFetch
    /\ fixity = NoFixity

NextConc ==
    \E c \in Callers :
        Enter(c) \/ Probe(c) \/ Remount(c) \/ MountLocally(c) \/ Scan(c)

SpecConc == InitConc /\ [][NextConc]_vars

\* The state and media views of one deposit, over every request and every
\* deposit row within the bounds (up to MaxDownloads downloads attempted, no
\* more completed than attempted, the completion time set or not), starting
\* from an empty deposit directory.
InitSword ==
    /\ DriverIdle
    /\ ret = NoReturn
    /\ record = NoRecord
    /\ calls = NoCalls
    /\ sword \in {[NoSword EXCEPT !.deposit =
                      [downloads_attempted |-> a, downloads_completed |-> c,
                       download_completion_time |-> t]]
                  : a \in 0..MaxDownloads, c \in 0..MaxDownloads, t \in {"None", "set"}}
    /\ sword.deposit.downloads_completed <= sword.deposit.downloads_attempted
    /\ auth = NoAuth
    /\ fetch = NoFetch
    /\ fixity = NoFixity

NextSword == DepositState \/ DepositMedia

SpecSword == InitSword /\ [][NextSword]_vars

\* CAS logins under every setting, over every set of superusers.
InitAuth ==
    /\ DriverIdle
    /\ ret = NoReturn
    /\ record = NoRecord
    /\ calls = NoCalls
    /\ sword = NoSword
    /\ auth \in {Auth(settings, users, NoAuth.login)
                 : settings \in CasSettings, users \in [Usernames -> BOOLEAN]}
    /\ fetch = NoFetch
    /\ fixity = NoFixity

NextAuth == CasLogin

SpecAuth == InitAuth /\ [][NextAuth]_vars

\* The collection over every request, with the location path a directory
\* or not and a deposit directory of the name there already or not, and the
\* fetch process of the deposit it creates.
InitFetch ==
    /\ DriverIdle
    /\ ret = NoReturn
    /\ record = NoRecord
    /\ calls = NoCalls
    /\ sword = NoSword
    /\ auth = NoAuth
    /\ fetch \in {[NoFetch EXCEPT !.location = l, !.dirs = d]
                  : l \in BOOLEAN, d \in {{}, {"a"}}}
    /\ fixity = NoFixity

NextFetch == Collection \/ FetchBegin \/ FetchDownload \/ FetchEnd

SpecFetch == InitFetch /\ [][NextFetch]_vars

\* The fixity signals over every set of superusers.
InitFixity ==
    /\ DriverIdle
    /\ ret = NoReturn
    /\ record = NoRecord
    /\ calls = NoCalls
    /\ sword = NoSword
    /\ auth = NoAuth
    /\ fetch = NoFetch
    /\ fixity \in {[NoFixity EXCEPT !.superusers = s] : s \in SUBSET Usernames}

NextFixity ==
    ReportFailedFixityCheck \/ ReportSuccessfulFixityCheck \/ ReportNotRunFixityCheck

SpecFixity == InitFixity /\ [][NextFixity]_vars

(***************************************************************************)
(* Properties                                                              *)
(***************************************************************************)

IsProbe(c) == c.cmd = "ls"
IsMountCommand(c) == c.cmd = "oneclient"

\* A probe answers for a live mount: exit code 0 and, through the exec
\* endpoint, a body that names the space.
ProbeSucceeded(c) == c.exit_code = 0 /\ (c.via = "exec" => c.names_space)

Called == last.op # "none"
Moved == last.op \in {"move_to", "move_from"}

\* C1: with manually_mounted set, no call issues a probe, an unmount or a
\* mount command, neither as a subprocess nor through the exec endpoint.
C1_ManuallyMountedIssuesNothing ==
    cfg.manually_mounted =>
        \A i \in DOMAIN last.cmds :
            last.cmds[i].cmd \notin {"ls", "fusermount", "oneclient"}

\* C2: a call of mount() whose first probe failed made exactly one mount
\* attempt and exactly one further probe, and it returned normally exactly
\* when that second probe succeeded.
C2_OneRemountThenReprobe ==
    LET probes == SelectSeq(last.cmds, IsProbe)
        mounts == SelectSeq(last.cmds, IsMountCommand)
    IN  (Called /\ probes # <<>> /\ ~ProbeSucceeded(probes[1])) =>
            /\ Len(mounts) = 1
            /\ Len(probes) = 2
            /\ (last.mount_raised = "none") = ProbeSucceeded(probes[2])

\* C3: through the exec endpoint, a mount command that ends with a non-zero
\* exit code, or whose request fails, makes mount() raise to its caller.
C3_RemoteMountFailureIsRaised ==
    (\E i \in DOMAIN last.cmds :
        /\ last.cmds[i].via = "exec"
        /\ IsMountCommand(last.cmds[i])
        /\ last.cmds[i].exit_code # 0)
    => last.mount_raised # "none"

\* C4: when the mount does not answer after mount(), browse lists nothing
\* and a transfer creates no directory and no link.
C4_DeadMountStopsTheCall ==
    (Called /\ ~last.live) => (~last.scanned /\ dest = last.before)

\* The files and directories that os.walk finds below a root.
FilesBelow(root) == IF SrcVisible(root, tree, treeAt, mountState) THEN tree.files ELSE {}
DirsBelow(root) == IF SrcVisible(root, tree, treeAt, mountState) THEN tree.dirs ELSE {}

ReturnedFromEmptyDest ==
    /\ last.op = "move_to"
    /\ last.mount_raised = "none" /\ last.raised = "none"
    /\ last.before = Fs({DestB}, {})

C6_LinkFailureDoesNotAbort ==
    (Moved /\ last.mount_raised = "none" /\ last.failed # {}
        /\ isdir(last.before, DestB)) =>
        /\ last.raised = "none"
        /\ \A f \in FilesBelow(last.walked) \ last.failed :
              LinkAt(dest, join(DestB, f)) # {}

LinkPaths(fs) == {l.at : l \in fs.links}

\* C7: what move_to_storage_service did, move_from_storage_service does
\* from the same destination on the same source tree: it ends the same way
\* and leaves the same directories and links below the destination.
C7_BothDirectionsMirrorAlike ==
    (last.op = "move_to" /\ last.mount_raised = "none"
        /\ treeAt = Roots /\ mountState = "Mounted") =>
        \E order \in ListOrders(tree), cld_ok \in BOOLEAN :
            LET back == move_from_storage_service(last.before, SrcArg, DestArg, tree,
                            treeAt, mountState, order, last.fault, cld_ok)
            IN  /\ back.raised = last.raised
                /\ back.fs.dirs = dest.dirs
                /\ LinkPaths(back.fs) = LinkPaths(dest)

Listed == last.op = "browse" /\ last.scanned /\ last.raised = "none"

SortedCaseInsensitively(names) ==
    \A i, j \in DOMAIN names : i < j => StrLeq(lower(names[i]), lower(names[j]))

Range(seq) == {seq[i] : i \in DOMAIN seq}

\* C8: in every returned listing each name of directories is a name of
\* entries, and both sequences are in case-insensitive order.
C8_DirectoriesWithinSortedEntries ==
    Listed =>
        /\ Range(last.result.directories) \subseteq Range(last.result.entries)
        /\ SortedCaseInsensitively(last.result.entries)
        /\ SortedCaseInsensitively(last.result.directories)

\* C8 witness: a listing in which the case decides the order ("a" before
\* "B", which the character codes alone would turn around) and that holds a
\* directory.
C8_Witness ==
    /\ Listed
    /\ last.result.entries = <<chr_a, chr_B>>
    /\ last.result.directories = <<chr_B>>

\* C9: with only_local_replicas set, no child that is_local_replica
\* rejects is named in entries or in directories.
C9_OnlyLocalReplicasListed ==
    (Listed /\ cfg.only_local_replicas) =>
        \A i \in DOMAIN listing :
            ~is_local_replica(listing[i]) =>
                /\ listing[i].name \notin Range(last.result.entries)
                /\ listing[i].name \notin Range(last.result.directories)

\* C10: browse computes an object count for a directory child only when
\* only_local_replicas is unset and the setting object_counting_disabled is
\* unset; with the setting set it counts for no directory.
C10_CountOnlyWhenEnabled ==
    (last.op = "browse" /\ last.scanned /\ last.result.count_calls # <<>>) =>
        (~cfg.only_local_replicas /\ ~object_counting_disabled)

Files(entries) == SelectSeq(entries, LAMBDA e : ~e.is_dir)

\* C11: count_objects returns; for a subtree with fewer objects than the
\* cap it returns their exact number, otherwise the string "5000+", and so
\* never a number above the cap.
C11_CountIsExactOrCapped ==
    ret.fn = "count_objects" =>
        /\ ret.raised = "none"
        /\ LET objects == Len(read_directory(Files(ret.arg), ret.only_local_replicas))
           IN  IF objects < COUNT_LIMIT THEN ret.value = objects
               ELSE ret.value = COUNT_LIMIT_REACHED

\* C12: is_local_replica never raises; it returns False when reading an
\* extended attribute fails, and True only for replication progress "100%"
\* with block count "1".
C12_ReplicaCheckNeverRaises ==
    ret.fn = "is_local_replica" =>
        /\ ret.raised = "none"
        /\ ret.arg.xattr = "IOError" => ret.value = FALSE
        /\ ret.value = TRUE =>
               /\ ret.arg.replication_progress = "100%"
               /\ ret.arg.blocks_count = "1"

\* C12 witness: the check ran on a child whose attributes cannot be read
\* and answered False.
C12_Witness ==
    /\ ret.fn = "is_local_replica"
    /\ ret.arg.xattr = "IOError"
    /\ ret.raised = "none"
    /\ ret.value = FALSE

\* The property pairs a listing holds for a name.
PropsOf(result, name) ==
    {result.properties[i][2] : i \in {j \in DOMAIN result.properties :
                                        result.properties[j][1] = name}}

\* C13: in every returned listing a directory child that cannot be read is
\* in entries, is not in directories and has no object count in
\* properties; a directory child that can be read is in directories.
C13_UnreadableDirectoryOnlyInEntries ==
    Listed =>
        \A i \in DOMAIN listing :
            listing[i].is_dir =>
                /\ listing[i].name \in Range(last.result.entries)
                /\ listing[i].readable =>
                       listing[i].name \in Range(last.result.directories)
                /\ ~listing[i].readable =>
                       /\ listing[i].name \notin Range(last.result.directories)
                       /\ \A q \in PropsOf(last.result, listing[i].name) :
                              q.key # "object count"

\* C13 witness: a returned listing of a directory that holds a child
\* directory that cannot be read and one that can.
C13_Witness ==
    /\ Listed
    /\ \E i, j \in DOMAIN listing :
           /\ listing[i].is_dir /\ ~listing[i].readable
           /\ listing[j].is_dir /\ listing[j].readable
           /\ listing[i].name \in Range(last.result.entries)
           /\ listing[j].name \in Range(last.result.directories)

\* C14: save() of a record whose space path is empty or "/tmp/oneclient"
\* ends with the configuration error (StorageError) and leaves the stored
\* row as it was; the row is written only when both checks pass.
C14_SaveRefusesBadMountpoint ==
    record.op = "save" =>
        /\ record.space_path \in {"", "/tmp/oneclient"} =>
               /\ record.raised = "StorageError"
               /\ record.stored = record.before
        /\ record.space_path \notin {"", "/tmp/oneclient"} =>
               /\ record.raised = "none"
               /\ record.stored = record.fields

\* C15: while a call whose mount() returned on a live mount is scanning, no
\* unmount or mount command of another call takes effect: the state of the
\* mount stays as that call found it until its scan is over.
C15_MountpointExclusivelyOwned ==
    [][\A c \in Callers :
          (calls[c].pc = "scan" /\ calls[c].live) => mountState' = mountState]_vars

\* C16: deposit_state answers GET with Complete when downloads_attempted is
\* 0 or when the completion time is set and the two counters agree, with
\* Incomplete when downloads were attempted and the completion time is not
\* set, with Failed when it is set and the counters differ; every other
\* method is answered with status 405.
C16_DepositStateReport ==
    sword.view = "deposit_state" =>
        LET d == sword.deposit
            done == d.download_completion_time # "None"
        IN  /\ sword.request.method = "GET" =>
                   /\ sword.response.raised = "none"
                   /\ (d.downloads_attempted = 0
                          \/ (done /\ d.downloads_attempted = d.downloads_completed))
                      => sword.response.body = "Complete"
                   /\ (d.downloads_attempted > 0 /\ ~done)
                      => sword.response.body = "Incomplete"
                   /\ (d.downloads_attempted > 0 /\ done
                          /\ d.downloads_attempted # d.downloads_completed)
                      => sword.response.body = "Failed"
            /\ sword.request.method # "GET" =>
                   /\ sword.response.raised = "none"
                   /\ sword.response.status = 405

\* The name an upload request gives to its file.
UploadName == parse_filename_from_content_disposition(sword.request.content_disposition)

\* C17: a POST that names a file the deposit already holds is answered with
\* status 400 and leaves that file as it was; a PUT that names a file the
\* deposit does not hold is answered with status 400 and creates no file.
C17_UploadRespectsExistence ==
    (sword.view = "deposit_media" /\ UploadName # "") =>
        /\ (sword.request.method = "POST" /\ sword.before[UploadName] # Absent) =>
               /\ sword.response.raised = "none"
               /\ sword.response.status = 400
               /\ sword.files = sword.before
        /\ (sword.request.method = "PUT" /\ sword.before[UploadName] = Absent) =>
               /\ sword.response.raised = "none"
               /\ sword.response.status = 400
               /\ sword.files = sword.before

\* The configured value is found in the attributes: the configured
\* attribute is that string, or a list that holds it.
AdminValueFound ==
    LET settings == auth.settings
        items == auth.login.attributes.items
    IN  /\ settings.CAS_ADMIN_ATTRIBUTE \in AttributeNames
        /\ settings.CAS_ADMIN_ATTRIBUTE_VALUE # "None"
        /\ LET v == items[settings.CAS_ADMIN_ATTRIBUTE]
           IN  \/ v = Str(settings.CAS_ADMIN_ATTRIBUTE_VALUE)
               \/ /\ v.type = "list"
                  /\ settings.CAS_ADMIN_ATTRIBUTE_VALUE \in Range(v.list)

\* C18: after a CAS login with the check enabled and attributes that are
\* not empty, the stored is_superuser of the user is whether the
\* configured value was found in the attributes, for a user created by the
\* login and for one that existed; with the check disabled or no
\* attributes, is_superuser is what it was.
C18_SuperuserFollowsCasAttributes ==
    auth.login.user # "none" =>
        IF auth.settings.CAS_CHECK_ADMIN_ATTRIBUTES /\ ~IsEmpty(auth.login.attributes)
        THEN auth.users[auth.login.user] = AdminValueFound
        ELSE auth.users[auth.login.user] = auth.login.before[auth.login.user]

\* C18 witness: an existing superuser logged in with attributes that do
\* not hold the configured value and is no superuser any more.
C18_Witness ==
    /\ auth.login.user # "none"
    /\ ~auth.login.created
    /\ auth.settings.CAS_CHECK_ADMIN_ATTRIBUTES
    /\ ~IsEmpty(auth.login.attributes)
    /\ auth.login.before[auth.login.user]
    /\ ~auth.users[auth.login.user]

\* The commands of a call that act on the mount, without the mkdir.
IsMountStep(c) == c.cmd \in {"ls", "fusermount", "oneclient"}
CommandNames(cmds) == [i \in DOMAIN cmds |-> cmds[i].cmd]

\* C19: a call whose first probe failed or timed out went on, in the local
\* branch as through the exec endpoint, with the forced unmount, then the
\* mount command, then one more probe, and with nothing else.
C19_UnmountMountReprobeInOrder ==
    LET steps == SelectSeq(last.cmds, IsMountStep)
    IN  (Called /\ steps # <<>> /\ IsProbe(steps[1]) /\ ~ProbeSucceeded(steps[1])) =>
            CommandNames(steps) = <<"ls", "fusermount", "oneclient", "ls">>

\* C20: every call on a record without manually_mounted starts with the
\* listing of the mountpoint, whatever the mount table says, and a listing
\* that fails is followed by the mount command when mount() returns.
C20_EveryCallProbesFirst ==
    (Called /\ ~cfg.manually_mounted) =>
        /\ last.cmds # <<>>
        /\ IsProbe(last.cmds[1])
        /\ (last.mount_raised = "none" /\ ~ProbeSucceeded(last.cmds[1])) =>
               \E i \in DOMAIN last.cmds : IsMountCommand(last.cmds[i])

C22_NoCountForLocalReplicas ==
    (last.op = "browse" /\ last.scanned /\ cfg.only_local_replicas) =>
        /\ last.result.count_calls = <<>>
        /\ \A i \in DOMAIN last.result.properties :
               last.result.properties[i][2].key # "object count"

\* C22 witness: a returned listing with a readable directory, under
\* only_local_replicas and with the setting set.
C22_Witness ==
    /\ Listed
    /\ cfg.only_local_replicas
    /\ object_counting_disabled
    /\ last.result.directories # <<>>

\* C23: a count over a directory one of whose subdirectories cannot be
\* read does not fail, and counts at least the files next to that
\* subdirectory.
C23_UnreadableSubtreeOnlySkipped ==
    (ret.fn = "count_objects" /\ ~ret.only_local_replicas
        /\ \E i \in DOMAIN ret.arg : ret.arg[i].is_dir /\ ~ret.arg[i].readable) =>
        /\ ret.raised = "none"
        /\ ret.value >= Len(Files(ret.arg))

MadeByMoveTo(l) == \E f \in tree.files : l.to = join(RootArchivematica, f)

\* C25: move_to_storage_service called again after a call of it (same
\* arguments, the same file refused if one was) completes without error and
\* leaves the directories and the links of the destination, targets
\* included, as they were.
C25_SecondMoveToChangesNothing ==
    [][(last.op = "move_to" /\ last.mount_raised = "none"
            /\ last'.op = "move_to" /\ last'.mount_raised = "none"
            /\ last'.fault = last.fault) =>
           (last'.raised = "none" /\ dest' = dest)]_vars

\* C25 witness: a second move_to_storage_service that found the links of
\* the first in a mirrored directory and at the top.
C25_Witness ==
    /\ last.op = "move_to"
    /\ last.raised = "none"
    /\ dest = last.before
    /\ join(DestB, <<DirName>>) \in last.before.dirs
    /\ Cardinality({l \in last.before.links : MadeByMoveTo(l)}) >= 2
    /\ Cardinality(last.failed) >= 2

\* p is root or lies below it.
Below(root, p) == Len(p) >= Len(root) /\ SubSeq(p, 1, Len(root)) = root

\* C26: a transfer removes nothing that was there before it, and every
\* directory and every link it creates lies at or below the destination
\* path and not below the source path.
C26_OnlyDestinationWritten ==
    Moved =>
        /\ last.before.dirs \subseteq dest.dirs
        /\ last.before.links \subseteq dest.links
        /\ \A d \in dest.dirs \ last.before.dirs :
               Below(DestB, d) /\ \A r \in Roots : ~Below(r, d)
        /\ \A l \in dest.links \ last.before.links :
               Below(DestB, l.at) /\ \A r \in Roots : ~Below(r, l.at)

\* C26 witness: a transfer that created a directory and two links.
C26_Witness ==
    /\ Moved
    /\ last.raised = "none"
    /\ join(DestB, <<DirName>>) \in dest.dirs \ last.before.dirs
    /\ Cardinality(dest.links \ last.before.links) >= 2

\* The last request was an upload whose file name passed the existence
\* test of its method and whose Content-MD5 header differs from the checksum
\* of its body.
ChecksumMismatch ==
    /\ sword.view = "deposit_media"
    /\ UploadName # ""
    /\ \/ sword.request.method = "POST" /\ sword.before[UploadName] = Absent
       \/ sword.request.method = "PUT" /\ sword.before[UploadName] # Absent
    /\ sword.request.content_md5 # Absent
    /\ sword.request.content_md5 # get_file_md5_checksum(sword.request.body)

\* C29: an upload whose Content-MD5 header does not match the checksum of
\* its body is answered with status 400 and leaves the files of the deposit
\* as they were.
C29_ChecksumMismatchIsRefused ==
    ChecksumMismatch =>
        /\ sword.response.raised = "none"
        /\ sword.response.status = 400
        /\ sword.files = sword.before

\* The fetch process of the deposit is over: it returned or an exception
\* ended it.
FetchOver == fetch.process.pc \in {"done", "died"}

\* C27: once the fetch process of a deposit created with at least one
\* content URL is over, whether its downloads succeeded or failed, the
\* completion time is recorded and the state of the deposit is reported as
\* Complete or Failed, not as Incomplete.
C27_FetchRecordsCompletion ==
    (FetchOver /\ fetch.process.urls # <<>>) =>
        /\ fetch.deposit.download_completion_time # "None"
        /\ task_state(fetch.deposit) \in {"Complete", "Failed"}

\* C28: from the first save of the fetch process on, downloads_completed is
\* at most downloads_attempted and downloads_attempted is the number of
\* content URLs of the deposit.
C28_CompletedAtMostAttempted ==
    fetch.process.pc \in {"loop", "done", "died"} =>
        /\ fetch.deposit.downloads_completed <= fetch.deposit.downloads_attempted
        /\ fetch.deposit.downloads_attempted = Len(fetch.process.urls)

\* C28 witness: a fetch process that returned after one download of one
\* URL, and recorded it.
C28_Witness ==
    /\ fetch.process.pc = "done"
    /\ Len(fetch.process.urls) >= 1
    /\ fetch.deposit.downloads_completed = Len(fetch.process.urls)

\* The last POST to the collection met every condition of a deposit: the
\* In-Progress header is 'true', the body is not empty and parses to XML
\* with a LABEL, and the location path is a directory.
DepositConditionsMet ==
    /\ fetch.request.in_progress = "true"
    /\ fetch.request.body.text # ""
    /\ fetch.request.body.xml
    /\ fetch.request.body.label # Absent
    /\ fetch.location

\* C30: a POST to the collection creates a deposit directory, a row and a
\* fetch process only when every condition is met; every other POST is
\* answered with an error response and creates none of them.
C30_DepositOnlyWhenConditionsMet ==
    fetch.request.method = "POST" =>
        /\ (fetch.dirs # fetch.before.dirs \/ fetch.rows # fetch.before.rows
               \/ fetch.started) => DepositConditionsMet
        /\ ~DepositConditionsMet =>
               /\ fetch.response.raised = "none"
               /\ fetch.response.status >= 400
               /\ fetch.dirs = fetch.before.dirs
               /\ fetch.rows = fetch.before.rows
               /\ ~fetch.started

\* The value of success that each fixity signal records.
SuccessOf(signal) ==
    CASE signal = "failed_fixity_check" -> "False"
      [] signal = "successful_fixity_check" -> "True"
      [] OTHER -> "None"

\* C31: a fixity signal adds one row to FixityLog, for the package of the
\* signal, with success False for failed_fixity_check, True for
\* successful_fixity_check and None for fixity_check_not_run; only
\* failed_fixity_check sends emails, and it sends one to every superuser
\* whose email_user did not raise, whatever happened to the others.
C31_OneLogRowPerFixitySignal ==
    fixity.signal # "none" =>
        /\ Len(fixity.log) = Len(fixity.before) + 1
        /\ SubSeq(fixity.log, 1, Len(fixity.before)) = fixity.before
        /\ fixity.log[Len(fixity.log)].package = fixity.uuid
        /\ fixity.log[Len(fixity.log)].success = SuccessOf(fixity.signal)
        /\ fixity.signal # "failed_fixity_check" =>
               fixity.notified = Notified({}, {})
        /\ fixity.signal = "failed_fixity_check" =>
               /\ fixity.notified.emailed \cup fixity.notified.failed = fixity.superusers
               /\ fixity.notified.emailed \cap fixity.notified.failed = {}

\* C31 witness: a failed fixity check, after another signal, with two
\* superusers of whom one got the email and one did not.
C31_Witness ==
    /\ fixity.signal = "failed_fixity_check"
    /\ fixity.before # <<>>
    /\ fixity.notified.emailed # {}
    /\ fixity.notified.failed # {}

====
